---- MODULE Spec2Model ----
(***************************************************************************)
(* The note store of knowledge-app and its bi-directional link engine:     *)
(* lib/db/operations.ts (createNote, updateNote, deleteNote) and           *)
(* lib/linking/parser.ts (parseWikiLinks, updateNoteLinks).                *)
(*                                                                         *)
(* A text is a sequence of one-character strings.  The notes table is a    *)
(* function from the ids present to the fields the operations read or      *)
(* write; the links table is a bag of rows, a row's uuid and createdAt     *)
(* being what tells two otherwise equal rows apart.  The empty             *)
(* targetNoteId '' of an unresolved row is NoId.                           *)
(***************************************************************************)
EXTENDS Integers, Sequences, FiniteSets, Bags, TLC

VARIABLES notes, links, usedIds, committed, lastOp, ops, text, parsed, tested, calls,
          saveTimeout, linkUpdateTimeout, timers, passed, handled, titled, edits

vars == <<notes, links, usedIds, committed, lastOp, ops, text, parsed, tested, calls,
          saveTimeout, linkUpdateTimeout, timers, passed, handled, titled, edits>>

\* The text handed to parseWikiLinks and to hasWikiLinks on their own, what
\* parseWikiLinks returned, and what hasWikiLinks returned (empty before the
\* call).
parserVars == <<text, parsed, tested>>

\* The editor's two timer variables (null or the handle setTimeout returned
\* last), the timers that are pending, the last text passed to debouncedSave /
\* debouncedUpdateLinks for each note and the last text its timer handed on,
\* how each note's title was set, and the number of editor updates so far.
editorVars == <<saveTimeout, linkUpdateTimeout, timers, passed, handled, titled, edits>>

\* Bounds of the model.
MaxNotes == 3
MaxOps == 5
MaxPieces == 4
MaxCalls == 2
MaxEdits == 2
MaxNoteOps == 3

NoteIds == 1..MaxNotes
NoId == 0

\* An argument or field that is not given (undefined).
None == <<"undefined">>

(***************************************************************************)
(* Texts                                                                   *)
(***************************************************************************)
UntitledNote == <<"U", "n", "t", "i", "t", "l", "e", "d", " ", "N", "o", "t", "e">>
Ellipsis == <<".", ".", ".">>
TitleLimit == 100

WhiteSpace == {" ", "\n", "\t"}

Range(s) == {s[i] : i \in 1..Len(s)}

SetMin(S) == CHOOSE x \in S : \A y \in S : x <= y
SetMax(S) == CHOOSE x \in S : \A y \in S : x >= y

\* String.prototype.trim
trim(s) ==
    LET keep == {i \in 1..Len(s) : s[i] \notin WhiteSpace}
    IN  IF keep = {} THEN <<>> ELSE SubSeq(s, SetMin(keep), SetMax(keep))

\* String.prototype.endsWith
endsWith(s, suffix) ==
    /\ Len(s) >= Len(suffix)
    /\ SubSeq(s, Len(s) - Len(suffix) + 1, Len(s)) = suffix

\* content.split('\n')[0]
firstLineOf(s) ==
    LET nl == {i \in 1..Len(s) : s[i] = "\n"}
    IN  IF nl = {} THEN s ELSE SubSeq(s, 1, SetMin(nl) - 1)

generateTitleFromContent(content) ==
    IF trim(content) = <<>>
    THEN UntitledNote
    ELSE LET firstLine == trim(firstLineOf(content))
         IN  IF Len(firstLine) > 0
             THEN IF Len(firstLine) > TitleLimit
                  THEN SubSeq(firstLine, 1, TitleLimit) \o Ellipsis
                  ELSE firstLine
             ELSE UntitledNote

(***************************************************************************)
(* parseWikiLinks: the matches of /\[\[([^\]]+)\]\]/g, left to right.      *)
(***************************************************************************)
\* The first "]" at or after position i, Len(s) + 1 when there is none.
firstClose(s, i) ==
    LET close == {j \in i..Len(s) : s[j] = "]"}
    IN  IF close = {} THEN Len(s) + 1 ELSE SetMin(close)

\* The regex matches at position i: "[[", one or more characters other than
\* "]" (the run ends at the first "]"), then "]]".
matchAt(s, i) ==
    /\ i + 1 <= Len(s)
    /\ s[i] = "["
    /\ s[i + 1] = "["
    /\ LET j == firstClose(s, i + 2)
       IN  /\ j >= i + 3
           /\ j + 1 <= Len(s)
           /\ s[j + 1] = "]"

\* matchAll: the capture group of every match, scanning on after each match.
RECURSIVE matchAll(_, _)
matchAll(s, i) ==
    IF i > Len(s)
    THEN <<>>
    ELSE IF matchAt(s, i)
         THEN LET j == firstClose(s, i + 2)
              IN  <<SubSeq(s, i + 2, j - 1)>> \o matchAll(s, j + 2)
         ELSE matchAll(s, i + 1)

\* Every element is kept.
allInOrder(xs) == xs

\* Array.from(new Set(xs)): the first occurrence of each element, in order.
RECURSIVE uniqueInOrder(_)
uniqueInOrder(xs) ==
    IF xs = <<>>
    THEN <<>>
    ELSE LET front == uniqueInOrder(SubSeq(xs, 1, Len(xs) - 1))
             last == xs[Len(xs)]
         IN  IF last \in Range(front) THEN front ELSE Append(front, last)

parseWikiLinks(content) ==
    LET matches == matchAll(content, 1)
        titles == [i \in 1..Len(matches) |-> trim(matches[i])]
    IN  uniqueInOrder(titles)

\* Only a match at the start of the text counts.
matchAtStart(content) == content # <<>> /\ matchAt(content, 1)

\* /\[\[([^\]]+)\]\]/.test(content): the regex, without the g flag, matches
\* at some position of the text.
hasWikiLinks(content) == \E i \in 1..Len(content) : matchAt(content, i)

(***************************************************************************)
(* The tables                                                              *)
(***************************************************************************)
\* Collection.toArray() of the notes table: primary-key order.
RECURSIVE toArray(_)
toArray(S) ==
    IF S = {}
    THEN <<>>
    ELSE LET m == SetMin(S) IN <<m>> \o toArray(S \ {m})

\* A row whose resolved flag is never set.
LinkNeverResolved(source, target, title, resolved) ==
    [sourceNoteId |-> source, targetNoteId |-> target,
     targetTitle |-> title, resolved |-> FALSE]

Link(source, target, title, resolved) ==
    [sourceNoteId |-> source, targetNoteId |-> target,
     targetTitle |-> title, resolved |-> resolved]

\* db.links.add(row)
linksAdd(ls, row) == ls (+) SetToBag({row})

\* A delete that removes no row.
linksDeleteEdgeKept(ls, source, target) == ls

\* db.links.where('sourceNoteId').equals(source)
\*   .and((link) => link.targetNoteId === target).delete()
linksDeleteEdge(ls, source, target) ==
    LET keep == {r \in DOMAIN ls :
                    ~(r.sourceNoteId = source /\ r.targetNoteId = target)}
    IN  [r \in keep |-> ls[r]]

\* Only the rows the note is the source of are deleted.
linksDeleteOfSource(ls, id) ==
    LET keep == {r \in DOMAIN ls : r.sourceNoteId # id}
    IN  [r \in keep |-> ls[r]]

\* db.links.where('sourceNoteId').equals(id).delete(), then
\* db.links.where('targetNoteId').equals(id).delete()
linksDeleteOf(ls, id) ==
    LET keep == {r \in DOMAIN ls : r.sourceNoteId # id /\ r.targetNoteId # id}
    IN  [r \in keep |-> ls[r]]

\* db.links.where('sourceNoteId').equals(id).delete()
linksDeleteBySource(ls, id) ==
    LET keep == {r \in DOMAIN ls : r.sourceNoteId # id}
    IN  [r \in keep |-> ls[r]]

\* db.links.where('targetNoteId').equals(id).delete()
linksDeleteByTarget(ls, id) ==
    LET keep == {r \in DOMAIN ls : r.targetNoteId # id}
    IN  [r \in keep |-> ls[r]]

\* A lookup that never finds the row.
existingLinkMissed(ls, source, title) == FALSE

\* db.links.where('sourceNoteId').equals(source)
\*   .and((link) => link.targetTitle === title && !link.resolved).first()
existingLink(ls, source, title) ==
    \E r \in DOMAIN ls :
        r.sourceNoteId = source /\ r.targetTitle = title /\ ~r.resolved

\* The id is not put into the set.
withIdLeftOut(ids, id) == uniqueInOrder(ids)

\* Array.from(new Set(ids).add(id))
withId(ids, id) == uniqueInOrder(Append(ids, id))

\* The id is left in the set.
withoutIdKept(ids, id) == uniqueInOrder(ids)

\* Array.from of new Set(ids) after .delete(id)
withoutId(ids, id) == uniqueInOrder(SelectSeq(ids, LAMBDA x : x # id))

\* A filter that keeps no id.
filterOutAll(ids, id) == <<>>

\* ids.filter((x) => x !== id)
filterOut(ids, id) == SelectSeq(ids, LAMBDA x : x # id)

(***************************************************************************)
(* updateNoteLinks (lib/linking/parser.ts).  A store st is the two tables  *)
(* and the write calls issued on them so far, in order.                    *)
(***************************************************************************)
Write(call, key) == [call |-> call, key |-> key]

\* The loop over addedLinks.
RECURSIVE addBacklinks(_, _, _)
addBacklinks(st, noteId, ids) ==
    IF ids = <<>>
    THEN st
    ELSE LET linkedNoteId == Head(ids)
             next ==
                 IF linkedNoteId \in DOMAIN st.notes
                 THEN LET linkedNote == st.notes[linkedNoteId]
                          backlinks == withId(linkedNote.backlinkNoteIds, noteId)
                      IN  [notes |-> [st.notes EXCEPT
                                        ![linkedNoteId].backlinkNoteIds = backlinks],
                           links |-> linksAdd(st.links,
                                        Link(noteId, linkedNoteId, linkedNote.title, TRUE)),
                           writes |-> st.writes \o <<Write("notes.update", linkedNoteId),
                                                     Write("links.add", linkedNoteId)>>]
                 ELSE st
         IN  addBacklinks(next, noteId, Tail(ids))

\* The loop over removedLinks.
RECURSIVE removeBacklinks(_, _, _)
removeBacklinks(st, noteId, ids) ==
    IF ids = <<>>
    THEN st
    ELSE LET unlinkedNoteId == Head(ids)
             next ==
                 IF unlinkedNoteId \in DOMAIN st.notes
                 THEN LET unlinkedNote == st.notes[unlinkedNoteId]
                          backlinks == withoutId(unlinkedNote.backlinkNoteIds, noteId)
                      IN  [notes |-> [st.notes EXCEPT
                                        ![unlinkedNoteId].backlinkNoteIds = backlinks],
                           links |-> linksDeleteEdge(st.links, noteId, unlinkedNoteId),
                           writes |-> st.writes \o <<Write("notes.update", unlinkedNoteId),
                                                     Write("links.delete", unlinkedNoteId)>>]
                 ELSE st
         IN  removeBacklinks(next, noteId, Tail(ids))

\* The loop over unresolvedTitles.
RECURSIVE addUnresolved(_, _, _)
addUnresolved(st, noteId, titles) ==
    IF titles = <<>>
    THEN st
    ELSE LET title == Head(titles)
             next ==
                 IF ~existingLink(st.links, noteId, title)
                 THEN [st EXCEPT
                         !.links = linksAdd(st.links, Link(noteId, NoId, title, FALSE)),
                         !.writes = Append(st.writes, Write("links.add", NoId))]
                 ELSE st
         IN  addUnresolved(next, noteId, Tail(titles))

\* Every matching note is listed twice.
linkedNotesTwice(ns, linkedTitles) ==
    LET ids == toArray({id \in DOMAIN ns : ns[id].title \in Range(linkedTitles)})
    IN  ids \o ids

\* db.notes.filter((note) => linkedTitles.includes(note.title)).toArray(), as ids
linkedNotesOf(ns, linkedTitles) ==
    toArray({id \in DOMAIN ns : ns[id].title \in Range(linkedTitles)})

\* Every new id is taken for added, whether the note held it or not.
addedLinksAll(newLinkedNoteIds, oldLinkedNoteIds) == newLinkedNoteIds

addedLinksOf(newLinkedNoteIds, oldLinkedNoteIds) ==
    SelectSeq(newLinkedNoteIds, LAMBDA id : id \notin Range(oldLinkedNoteIds))

removedLinksOf(newLinkedNoteIds, oldLinkedNoteIds) ==
    SelectSeq(oldLinkedNoteIds, LAMBDA id : id \notin Range(newLinkedNoteIds))

\* No title is taken for unresolved.
unresolvedTitlesNone(ns, linkedTitles, linkedNotes) == <<>>

unresolvedTitlesOf(ns, linkedTitles, linkedNotes) ==
    SelectSeq(linkedTitles,
              LAMBDA title : ~\E i \in 1..Len(linkedNotes) : ns[linkedNotes[i]].title = title)

\* The list is written to every note.
setLinkedNoteIdsOfAll(ns, noteId, newLinkedNoteIds) ==
    [n \in DOMAIN ns |-> [ns[n] EXCEPT !.linkedNoteIds = newLinkedNoteIds]]

\* The source note's linkedNoteIds after db.notes.update(noteId, {linkedNoteIds}).
setLinkedNoteIds(ns, noteId, newLinkedNoteIds) ==
    [ns EXCEPT ![noteId].linkedNoteIds = newLinkedNoteIds]

updateNoteLinks(st, noteId, content) ==
    LET linkedTitles == parseWikiLinks(content)
    IN  IF noteId \notin DOMAIN st.notes
        THEN st
        ELSE LET currentNote == st.notes[noteId]
                 linkedNotes == linkedNotesOf(st.notes, linkedTitles)
                 newLinkedNoteIds == linkedNotes
                 oldLinkedNoteIds == currentNote.linkedNoteIds
                 st1 == [st EXCEPT
                           !.notes = setLinkedNoteIds(st.notes, noteId, newLinkedNoteIds),
                           !.writes = Append(st.writes, Write("notes.update", noteId))]
                 addedLinks == addedLinksOf(newLinkedNoteIds, oldLinkedNoteIds)
                 removedLinks == removedLinksOf(newLinkedNoteIds, oldLinkedNoteIds)
                 st2 == addBacklinks(st1, noteId, addedLinks)
                 st3 == removeBacklinks(st2, noteId, removedLinks)
                 unresolvedTitles ==
                     unresolvedTitlesOf(st.notes, linkedTitles, linkedNotes)
             IN  addUnresolved(st3, noteId, unresolvedTitles)

(***************************************************************************)
(* createNote, updateNote, deleteNote (lib/db/operations.ts)               *)
(***************************************************************************)
\* !x of a string argument: undefined or ''
falsy(x) == x = None \/ x = <<>>

\* The row createNote stores: createEmptyNote() overlaid with data.
newNote(title, content, t) ==
    LET body == IF content = None THEN <<>> ELSE content
        given == IF title = None THEN UntitledNote ELSE title
    IN  [title |-> IF falsy(title) /\ ~falsy(body)
                   THEN generateTitleFromContent(body)
                   ELSE given,
         updatedAt |-> t,
         linkedNoteIds |-> <<>>,
         backlinkNoteIds |-> <<>>]

createNote(st, id, title, content, t) ==
    [st EXCEPT !.notes = (id :> newNote(title, content, t)) @@ st.notes,
               !.writes = Append(st.writes, Write("notes.add", id))]

\* createNote(data) for data that carries linkedNoteIds and backlinkNoteIds
\* as well: ...data overlays the empty lists of createEmptyNote().  With
\* both lists empty, or not in data, this is createNote above.
createNoteWith(st, id, title, content, linkedNoteIds, backlinkNoteIds, t) ==
    LET note == [newNote(title, content, t) EXCEPT
                    !.linkedNoteIds = linkedNoteIds,
                    !.backlinkNoteIds = backlinkNoteIds]
    IN  [st EXCEPT !.notes = (id :> note) @@ st.notes,
                   !.writes = Append(st.writes, Write("notes.add", id))]

\* finalUpdates.title of updateNote, None when finalUpdates has no title.
finalTitle(ns, id, title, content) ==
    IF /\ content # None
       /\ falsy(title)
       /\ id \in DOMAIN ns
       /\ (ns[id].title = UntitledNote \/ endsWith(ns[id].title, Ellipsis))
    THEN generateTitleFromContent(content)
    ELSE title

updateNote(st, id, title, content, t) ==
    LET newTitle == finalTitle(st.notes, id, title, content)
    IN  IF id \notin DOMAIN st.notes
        THEN [st EXCEPT !.writes = Append(st.writes, Write("notes.update", id))]
        ELSE [st EXCEPT
                !.notes = [st.notes EXCEPT
                             ![id].title = IF newTitle = None THEN @ ELSE newTitle,
                             ![id].updatedAt = t],
                !.writes = Append(st.writes, Write("notes.update", id))]

\* The loop over note.linkedNoteIds.
RECURSIVE dropBacklinks(_, _, _)
dropBacklinks(st, id, ids) ==
    IF ids = <<>>
    THEN st
    ELSE LET linkedNoteId == Head(ids)
             next ==
                 IF linkedNoteId \in DOMAIN st.notes
                 THEN [st EXCEPT
                         !.notes[linkedNoteId].backlinkNoteIds = filterOut(@, id),
                         !.writes = Append(st.writes, Write("notes.update", linkedNoteId))]
                 ELSE st
         IN  dropBacklinks(next, id, Tail(ids))

\* The loop over note.backlinkNoteIds.
RECURSIVE dropLinks(_, _, _)
dropLinks(st, id, ids) ==
    IF ids = <<>>
    THEN st
    ELSE LET backlinkNoteId == Head(ids)
             next ==
                 IF backlinkNoteId \in DOMAIN st.notes
                 THEN [st EXCEPT
                         !.notes[backlinkNoteId].linkedNoteIds = filterOut(@, id),
                         !.writes = Append(st.writes, Write("notes.update", backlinkNoteId))]
                 ELSE st
         IN  dropLinks(next, id, Tail(ids))

\* deleteNote without the early return for a note that is not there.
deleteNoteUnguarded(st, id) ==
    [notes |-> [n \in DOMAIN st.notes \ {id} |-> st.notes[n]],
     links |-> linksDeleteOf(st.links, id),
     writes |-> st.writes \o <<Write("links.delete", id),
                                 Write("links.delete", id),
                                 Write("notes.delete", id)>>]

deleteNote(st, id) ==
    IF id \notin DOMAIN st.notes
    THEN st
    ELSE LET note == st.notes[id]
             st1 == dropBacklinks(st, id, note.linkedNoteIds)
             st2 == dropLinks(st1, id, note.backlinkNoteIds)
         IN  [notes |-> [n \in DOMAIN st2.notes \ {id} |-> st2.notes[n]],
              links |-> linksDeleteOf(st2.links, id),
              writes |-> st2.writes \o <<Write("links.delete", id),
                                          Write("links.delete", id),
                                          Write("notes.delete", id)>>]

\* db.notes.where('id').anyOf(note.backlinkNoteIds).toArray(), as ids
getBacklinks(ns, noteId) ==
    IF noteId \notin DOMAIN ns
    THEN <<>>
    ELSE toArray({id \in DOMAIN ns : id \in Range(ns[noteId].backlinkNoteIds)})

(***************************************************************************)
(* The operations as the editing layer issues them, one at a time.  Ids    *)
(* stand for fresh uuids, handed out in increasing order.  ops counts the  *)
(* completed calls and is the clock: each call reads a later Date.now()    *)
(* than the call before it.                                                *)
(* committed[id] is the body last passed to updateNoteLinks for the note,  *)
(* and lastOp is the last completed call with the write calls it issued.   *)
(***************************************************************************)
Titles == {<<"a">>, <<"b">>}

\* Editor texts: a first line, then the references.
Bodies == {<<"a">>,
           <<"b", "\n", "[", "[", "a", "]", "]">>,
           <<"b", "\n", "[", "[", "a", "]", "]", " ", "[", "[", " ", "b", "]", "]">>}

\* Date.now() of the call in progress: later than that of every call before.
DateNow == ops + 1

Store == [notes |-> notes, links |-> links, writes |-> <<>>]

\* The calls in flight, each at one of its awaits; none in flight is Idle.
Procs == 1..MaxCalls

Idle == [op |-> "none", pc |-> "idle"]

Call(op, id, content, st, flag) ==
    [op |-> op, id |-> id, content |-> content, writes |-> st.writes, flag |-> flag]

\* The timer variable before the first call: null.  The handles that
\* setTimeout returns are positive.
NoTimer == 0

\* A pending timer: its handle, the function that set it ("save" or "links")
\* and the arguments its callback closes over.
Timer(handle, fn, noteId, content) ==
    [handle |-> handle, fn |-> fn, noteId |-> noteId, content |-> content]

\* setTimeout(callback, 1000): one more pending timer.
setTimeout(table, timer) == table \cup {timer}

\* clearTimeout(handle): the timer of that handle is no longer pending; null
\* and the handle of a timer that has fired are ignored.
clearTimeoutIgnored(table, handle) == table

clearTimeout(table, handle) == {t \in table : t.handle # handle}

\* No timer is pending and nothing was typed.
EditorIdle ==
    /\ saveTimeout = NoTimer
    /\ linkUpdateTimeout = NoTimer
    /\ timers = {}
    /\ passed = [f \in {"save", "links"} |-> [id \in NoteIds |-> None]]
    /\ handled = [f \in {"save", "links"} |-> [id \in NoteIds |-> None]]
    /\ titled = [id \in NoteIds |-> "absent"]
    /\ edits = 0

Init ==
    /\ notes = <<>>
    /\ links = EmptyBag
    /\ usedIds = {}
    /\ committed = [id \in NoteIds |-> None]
    /\ lastOp = Call("init", NoId, None, [writes |-> <<>>], FALSE)
    /\ ops = 0
    /\ text = <<>>
    /\ parsed = None
    /\ tested = <<>>
    /\ calls = [p \in Procs |-> Idle]
    /\ EditorIdle

CreateNote(id, title, content, t) ==
    LET st == createNote(Store, id, title, content, t)
    IN  /\ id \in NoteIds \ usedIds
        /\ \A other \in NoteIds \ usedIds : id <= other
        /\ notes' = st.notes
        /\ links' = st.links
        /\ usedIds' = usedIds \cup {id}
        /\ lastOp' = Call("createNote", id, None, st, FALSE)
        /\ UNCHANGED committed

\* lastOp.flag of an updateNote: the call changed the note's title.
UpdateNote(id, title, content, t) ==
    LET st == updateNote(Store, id, title, content, t)
        renamed == id \in DOMAIN notes /\ st.notes[id].title # notes[id].title
    IN  /\ id \in usedIds
        /\ notes' = st.notes
        /\ links' = st.links
        /\ lastOp' = Call("updateNote", id, None, st, renamed)
        /\ UNCHANGED <<usedIds, committed>>

\* lastOp.flag of an updateNoteLinks: the call before it was the same call.
UpdateNoteLinks(id, content) ==
    LET st == updateNoteLinks(Store, id, content)
        again == /\ lastOp.op = "updateNoteLinks"
                 /\ lastOp.id = id
                 /\ lastOp.content = content
    IN  /\ id \in usedIds
        /\ notes' = st.notes
        /\ links' = st.links
        /\ committed' = IF id \in DOMAIN notes
                        THEN [committed EXCEPT ![id] = content]
                        ELSE committed
        /\ lastOp' = Call("updateNoteLinks", id, content, st, again)
        /\ UNCHANGED usedIds

DeleteNote(id) ==
    LET st == deleteNote(Store, id)
    IN  /\ id \in usedIds
        /\ notes' = st.notes
        /\ links' = st.links
        /\ committed' = [committed EXCEPT ![id] = None]
        /\ lastOp' = Call("deleteNote", id, None, st, FALSE)
        /\ UNCHANGED usedIds

\* One more call completes.
Completed ==
    /\ ops < MaxOps
    /\ ops' = ops + 1

Next ==
    \/ \E id \in NoteIds, title \in Titles \cup {None}, content \in Bodies \cup {None} :
            Completed /\ CreateNote(id, title, content, DateNow) /\ UNCHANGED <<parserVars, calls, editorVars>>
    \/ \E id \in NoteIds, title \in Titles \cup {None}, content \in Bodies \cup {None} :
            Completed /\ UpdateNote(id, title, content, DateNow) /\ UNCHANGED <<parserVars, calls, editorVars>>
    \/ \E id \in NoteIds, content \in Bodies :
            Completed /\ UpdateNoteLinks(id, content) /\ UNCHANGED <<parserVars, calls, editorVars>>
    \/ \E id \in NoteIds :
            Completed /\ DeleteNote(id) /\ UNCHANGED <<parserVars, calls, editorVars>>

Spec == Init /\ [][Next]_vars

(***************************************************************************)
(* parseWikiLinks on its own: a text of the editor, put together from a    *)
(* few pieces, is parsed.                                                  *)
(***************************************************************************)
\* What is typed or pasted at a time: whole markers, with and without
\* blanks around the title and in either case, and the parts of a marker.
Pieces == {<<"[", "[", "a", "]", "]">>,
           <<"[", "[", " ", "a", " ", "]", "]">>,
           <<"[", "[", "A", "]", "]">>,
           <<"[", "[">>,
           <<"]", "]">>,
           <<"]">>,
           <<"a">>,
           <<" ">>}

\* The texts of at most n pieces.
RECURSIVE TextsOf(_)
TextsOf(n) ==
    IF n = 0
    THEN {<<>>}
    ELSE LET shorter == TextsOf(n - 1)
         IN  shorter \cup {t \o piece : t \in shorter, piece \in Pieces}

Texts == TextsOf(MaxPieces)

ParserInit ==
    /\ notes = <<>>
    /\ links = EmptyBag
    /\ usedIds = {}
    /\ committed = [id \in NoteIds |-> None]
    /\ lastOp = Call("init", NoId, None, [writes |-> <<>>], FALSE)
    /\ ops = 0
    /\ text \in Texts
    /\ parsed = None
    /\ tested = <<>>
    /\ calls = [p \in Procs |-> Idle]
    /\ EditorIdle

ParseWikiLinks ==
    /\ parsed' = parseWikiLinks(text)
    /\ UNCHANGED <<notes, links, usedIds, committed, lastOp, ops, text, tested, calls,
                   editorVars>>

HasWikiLinks ==
    /\ tested' = <<hasWikiLinks(text)>>
    /\ UNCHANGED <<notes, links, usedIds, committed, lastOp, ops, text, parsed, calls,
                   editorVars>>

ParserNext ==
    \/ ParseWikiLinks
    \/ HasWikiLinks

ParserSpec == ParserInit /\ [][ParserNext]_vars

(***************************************************************************)
(* updateNoteLinks and deleteNote await by await.  Each await of a store   *)
(* call is one step: the calls in flight interleave between their awaits,  *)
(* every store call is committed when it returns (no transaction spans two *)
(* of them), and a store call may fail, which ends the call it is part of. *)
(* calls[p].before is the store as it was when call p was made.            *)
(***************************************************************************)
\* The store with two source notes (1 and 3) and a note titled "a" (2).
ThreeNotes ==
    LET empty == [notes |-> <<>>, links |-> EmptyBag, writes |-> <<>>]
        one == createNote(empty, 1, None, None, 1)
        two == createNote(one, 2, <<"a">>, None, 2)
    IN  createNote(two, 3, None, None, 3)

\* The same store once both sources have committed a body with [[a]].
BothLinked ==
    LET body == <<"b", "\n", "[", "[", "a", "]", "]">>
    IN  updateNoteLinks(updateNoteLinks(ThreeNotes, 1, body), 3, body)

StepInit ==
    /\ \E st \in {ThreeNotes, BothLinked} :
          /\ notes = st.notes
          /\ links = st.links
          /\ usedIds = DOMAIN st.notes
    /\ committed = [id \in NoteIds |-> None]
    /\ lastOp = Call("init", NoId, None, [writes |-> <<>>], FALSE)
    /\ ops = 0
    /\ text = <<>>
    /\ parsed = None
    /\ tested = <<>>
    /\ calls = [p \in Procs |-> Idle]
    /\ EditorIdle

\* What the steps of a call leave alone.
callFrame == <<usedIds, committed, lastOp, ops, text, parsed, tested, editorVars>>

\* calls with the locals of call p changed.
Local(p, changes) ==
    [calls EXCEPT ![p] = [f \in DOMAIN changes \cup DOMAIN @ |->
                             IF f \in DOMAIN changes THEN changes[f] ELSE @[f]]]

\* Where updateNoteLinks goes on: the next iteration of the loop it is in or
\* the first of the next loop that has one, the end when none has.
loopOf(added, removed, unresolved) ==
    IF added # <<>> THEN "addGet"
    ELSE IF removed # <<>> THEN "removeGet"
    ELSE IF unresolved # <<>> THEN "unresolvedFirst"
    ELSE "done"

\* Where deleteNote goes on.
deleteLoopOf(linked, backlinked) ==
    IF linked # <<>> THEN "linkedGet"
    ELSE IF backlinked # <<>> THEN "backlinkGet"
    ELSE "linksBySource"

\* db.notes.update(key, changes): nothing is written when the key is absent.
notesUpdate(ns, key, field, value) ==
    IF key \in DOMAIN ns THEN [ns EXCEPT ![key][field] = value] ELSE ns

\* The locals of updateNoteLinks(noteId, content) as it is entered.
entered(noteId, content) ==
    [op |-> "updateNoteLinks", pc |-> "get", id |-> noteId,
     content |-> content,
     linkedTitles |-> parseWikiLinks(content),
     old |-> <<>>, new |-> <<>>,
     added |-> <<>>, removed |-> <<>>, unresolved |-> <<>>,
     peer |-> None,
     before |-> [notes |-> notes, links |-> links]]

\* updateNoteLinks(noteId, content) is called.
CallUpdateNoteLinks(p, noteId, content) ==
    /\ calls[p].pc = "idle"
    /\ calls' = [calls EXCEPT ![p] = entered(noteId, content)]
    /\ UNCHANGED <<notes, links, callFrame>>

\* const currentNote = await db.notes.get(noteId); if (!currentNote) return;
GetCurrentNote(p) ==
    /\ calls[p].pc = "get"
    /\ calls' = IF calls[p].id \in DOMAIN notes
                THEN Local(p, [pc |-> "filter",
                               old |-> notes[calls[p].id].linkedNoteIds])
                ELSE Local(p, [pc |-> "done"])
    /\ UNCHANGED <<notes, links, callFrame>>

\* const linkedNotes = await db.notes.filter(...).toArray()
FilterLinkedNotes(p) ==
    LET linkedNotes == linkedNotesOf(notes, calls[p].linkedTitles)
    IN  /\ calls[p].pc = "filter"
        /\ calls' = Local(p, [pc |-> "update",
                              new |-> linkedNotes,
                              unresolved |-> unresolvedTitlesOf(notes,
                                                calls[p].linkedTitles, linkedNotes)])
        /\ UNCHANGED <<notes, links, callFrame>>

\* await db.notes.update(noteId, {linkedNoteIds: newLinkedNoteIds})
UpdateLinkedNoteIds(p) ==
    LET added == addedLinksOf(calls[p].new, calls[p].old)
        removed == removedLinksOf(calls[p].new, calls[p].old)
    IN  /\ calls[p].pc = "update"
        /\ notes' = notesUpdate(notes, calls[p].id, "linkedNoteIds", calls[p].new)
        /\ calls' = Local(p, [pc |-> loopOf(added, removed, calls[p].unresolved),
                              added |-> added,
                              removed |-> removed])
        /\ UNCHANGED <<links, callFrame>>

\* const linkedNote = await db.notes.get(linkedNoteId); if (linkedNote) ...
GetLinkedNote(p) ==
    LET linkedNoteId == Head(calls[p].added)
    IN  /\ calls[p].pc = "addGet"
        /\ calls' = IF linkedNoteId \in DOMAIN notes
                    THEN Local(p, [pc |-> "addUpdate", peer |-> notes[linkedNoteId]])
                    ELSE Local(p, [pc |-> loopOf(Tail(calls[p].added),
                                                 calls[p].removed, calls[p].unresolved),
                                   added |-> Tail(calls[p].added)])
        /\ UNCHANGED <<notes, links, callFrame>>

\* await db.notes.update(linkedNoteId, {backlinkNoteIds: Array.from(backlinks)})
AddBacklink(p) ==
    /\ calls[p].pc = "addUpdate"
    /\ notes' = notesUpdate(notes, Head(calls[p].added), "backlinkNoteIds",
                            withId(calls[p].peer.backlinkNoteIds, calls[p].id))
    /\ calls' = Local(p, [pc |-> "addLink"])
    /\ UNCHANGED <<links, callFrame>>

\* await db.links.add({..., resolved: true})
AddLink(p) ==
    /\ calls[p].pc = "addLink"
    /\ links' = linksAdd(links, Link(calls[p].id, Head(calls[p].added),
                                     calls[p].peer.title, TRUE))
    /\ calls' = Local(p, [pc |-> loopOf(Tail(calls[p].added),
                                        calls[p].removed, calls[p].unresolved),
                          added |-> Tail(calls[p].added)])
    /\ UNCHANGED <<notes, callFrame>>

\* const unlinkedNote = await db.notes.get(unlinkedNoteId); if (unlinkedNote) ...
GetUnlinkedNote(p) ==
    LET unlinkedNoteId == Head(calls[p].removed)
    IN  /\ calls[p].pc = "removeGet"
        /\ calls' = IF unlinkedNoteId \in DOMAIN notes
                    THEN Local(p, [pc |-> "removeUpdate", peer |-> notes[unlinkedNoteId]])
                    ELSE Local(p, [pc |-> loopOf(<<>>, Tail(calls[p].removed),
                                                 calls[p].unresolved),
                                   removed |-> Tail(calls[p].removed)])
        /\ UNCHANGED <<notes, links, callFrame>>

\* await db.notes.update(unlinkedNoteId, {backlinkNoteIds: Array.from(backlinks)})
RemoveBacklink(p) ==
    /\ calls[p].pc = "removeUpdate"
    /\ notes' = notesUpdate(notes, Head(calls[p].removed), "backlinkNoteIds",
                            withoutId(calls[p].peer.backlinkNoteIds, calls[p].id))
    /\ calls' = Local(p, [pc |-> "removeLink"])
    /\ UNCHANGED <<links, callFrame>>

\* await db.links.where('sourceNoteId').equals(noteId).and(...).delete()
RemoveLink(p) ==
    /\ calls[p].pc = "removeLink"
    /\ links' = linksDeleteEdge(links, calls[p].id, Head(calls[p].removed))
    /\ calls' = Local(p, [pc |-> loopOf(<<>>, Tail(calls[p].removed),
                                        calls[p].unresolved),
                          removed |-> Tail(calls[p].removed)])
    /\ UNCHANGED <<notes, callFrame>>

\* const existingLink = await db.links.where(...).and(...).first()
FirstExistingLink(p) ==
    /\ calls[p].pc = "unresolvedFirst"
    /\ calls' = IF existingLink(links, calls[p].id, Head(calls[p].unresolved))
                THEN Local(p, [pc |-> loopOf(<<>>, <<>>, Tail(calls[p].unresolved)),
                               unresolved |-> Tail(calls[p].unresolved)])
                ELSE Local(p, [pc |-> "unresolvedAdd"])
    /\ UNCHANGED <<notes, links, callFrame>>

\* await db.links.add({..., targetNoteId: '', resolved: false})
AddUnresolvedLink(p) ==
    /\ calls[p].pc = "unresolvedAdd"
    /\ links' = linksAdd(links, Link(calls[p].id, NoId, Head(calls[p].unresolved), FALSE))
    /\ calls' = Local(p, [pc |-> loopOf(<<>>, <<>>, Tail(calls[p].unresolved)),
                          unresolved |-> Tail(calls[p].unresolved)])
    /\ UNCHANGED <<notes, callFrame>>

\* deleteNote(id) is called.
CallDeleteNote(p, id) ==
    /\ calls[p].pc = "idle"
    /\ calls' = [calls EXCEPT ![p] =
                    [op |-> "deleteNote", pc |-> "note", id |-> id,
                     linked |-> <<>>, backlinked |-> <<>>,
                     peer |-> None,
                     before |-> [notes |-> notes, links |-> links]]]
    /\ UNCHANGED <<notes, links, callFrame>>

\* const note = await getNote(id); if (!note) return;
GetNote(p) ==
    /\ calls[p].pc = "note"
    /\ calls' = IF calls[p].id \in DOMAIN notes
                THEN LET note == notes[calls[p].id]
                     IN  Local(p, [pc |-> deleteLoopOf(note.linkedNoteIds,
                                                       note.backlinkNoteIds),
                                   linked |-> note.linkedNoteIds,
                                   backlinked |-> note.backlinkNoteIds])
                ELSE Local(p, [pc |-> "done"])
    /\ UNCHANGED <<notes, links, callFrame>>

\* const linkedNote = await getNote(linkedNoteId); if (linkedNote) ...
GetLinkedOfNote(p) ==
    LET linkedNoteId == Head(calls[p].linked)
    IN  /\ calls[p].pc = "linkedGet"
        /\ calls' = IF linkedNoteId \in DOMAIN notes
                    THEN Local(p, [pc |-> "linkedUpdate", peer |-> notes[linkedNoteId]])
                    ELSE Local(p, [pc |-> deleteLoopOf(Tail(calls[p].linked),
                                                       calls[p].backlinked),
                                   linked |-> Tail(calls[p].linked)])
        /\ UNCHANGED <<notes, links, callFrame>>

\* await db.notes.update(linkedNoteId, {backlinkNoteIds: updatedBacklinks})
DropBacklink(p) ==
    /\ calls[p].pc = "linkedUpdate"
    /\ notes' = notesUpdate(notes, Head(calls[p].linked), "backlinkNoteIds",
                            filterOut(calls[p].peer.backlinkNoteIds, calls[p].id))
    /\ calls' = Local(p, [pc |-> deleteLoopOf(Tail(calls[p].linked),
                                              calls[p].backlinked),
                          linked |-> Tail(calls[p].linked)])
    /\ UNCHANGED <<links, callFrame>>

\* const backlinkNote = await getNote(backlinkNoteId); if (backlinkNote) ...
GetBacklinkOfNote(p) ==
    LET backlinkNoteId == Head(calls[p].backlinked)
    IN  /\ calls[p].pc = "backlinkGet"
        /\ calls' = IF backlinkNoteId \in DOMAIN notes
                    THEN Local(p, [pc |-> "backlinkUpdate", peer |-> notes[backlinkNoteId]])
                    ELSE Local(p, [pc |-> deleteLoopOf(<<>>, Tail(calls[p].backlinked)),
                                   backlinked |-> Tail(calls[p].backlinked)])
        /\ UNCHANGED <<notes, links, callFrame>>

\* await db.notes.update(backlinkNoteId, {linkedNoteIds: updatedLinks})
DropLink(p) ==
    /\ calls[p].pc = "backlinkUpdate"
    /\ notes' = notesUpdate(notes, Head(calls[p].backlinked), "linkedNoteIds",
                            filterOut(calls[p].peer.linkedNoteIds, calls[p].id))
    /\ calls' = Local(p, [pc |-> deleteLoopOf(<<>>, Tail(calls[p].backlinked)),
                          backlinked |-> Tail(calls[p].backlinked)])
    /\ UNCHANGED <<links, callFrame>>

\* await db.links.where('sourceNoteId').equals(id).delete()
DeleteLinksBySource(p) ==
    /\ calls[p].pc = "linksBySource"
    /\ links' = linksDeleteBySource(links, calls[p].id)
    /\ calls' = Local(p, [pc |-> "linksByTarget"])
    /\ UNCHANGED <<notes, callFrame>>

\* await db.links.where('targetNoteId').equals(id).delete()
DeleteLinksByTarget(p) ==
    /\ calls[p].pc = "linksByTarget"
    /\ links' = linksDeleteByTarget(links, calls[p].id)
    /\ calls' = Local(p, [pc |-> "noteDelete"])
    /\ UNCHANGED <<notes, callFrame>>

\* await db.notes.delete(id)
DeleteTheNote(p) ==
    /\ calls[p].pc = "noteDelete"
    /\ notes' = [n \in DOMAIN notes \ {calls[p].id} |-> notes[n]]
    /\ calls' = Local(p, [pc |-> "done"])
    /\ UNCHANGED <<links, callFrame>>

\* The store call the call is waiting for is rejected: the await throws and
\* the promise of the call is rejected with the error.
StoreCallFails(p) ==
    /\ calls[p].pc \notin {"idle", "done", "failed"}
    /\ calls' = Local(p, [pc |-> "failed"])
    /\ UNCHANGED <<notes, links, callFrame>>

StepNext ==
    \/ \E p \in Procs, id \in NoteIds, content \in Bodies :
            CallUpdateNoteLinks(p, id, content)
    \/ \E p \in Procs : GetCurrentNote(p)
    \/ \E p \in Procs : FilterLinkedNotes(p)
    \/ \E p \in Procs : UpdateLinkedNoteIds(p)
    \/ \E p \in Procs : GetLinkedNote(p)
    \/ \E p \in Procs : AddBacklink(p)
    \/ \E p \in Procs : AddLink(p)
    \/ \E p \in Procs : GetUnlinkedNote(p)
    \/ \E p \in Procs : RemoveBacklink(p)
    \/ \E p \in Procs : RemoveLink(p)
    \/ \E p \in Procs : FirstExistingLink(p)
    \/ \E p \in Procs : AddUnresolvedLink(p)
    \/ \E p \in Procs, id \in NoteIds : CallDeleteNote(p, id)
    \/ \E p \in Procs : GetNote(p)
    \/ \E p \in Procs : GetLinkedOfNote(p)
    \/ \E p \in Procs : DropBacklink(p)
    \/ \E p \in Procs : GetBacklinkOfNote(p)
    \/ \E p \in Procs : DropLink(p)
    \/ \E p \in Procs : DeleteLinksBySource(p)
    \/ \E p \in Procs : DeleteLinksByTarget(p)
    \/ \E p \in Procs : DeleteTheNote(p)
    \/ \E p \in Procs : StoreCallFails(p)

StepSpec == StepInit /\ [][StepNext]_vars

(***************************************************************************)
(* One call await by await, the calls of others completing between two of  *)
(* its awaits, and the call made again with the same arguments after a     *)
(* store call of it failed.                                                *)
(***************************************************************************)
\* The call that failed is made again: same arguments, new locals.
\* calls[p].before stays the store as it was when the call was first made.
Retry(p) ==
    /\ calls[p].pc = "failed"
    /\ "again" \notin DOMAIN calls[p]
    /\ calls' = IF calls[p].op = "updateNoteLinks"
                THEN Local(p, [pc |-> "get", old |-> <<>>, new |-> <<>>,
                               added |-> <<>>, removed |-> <<>>,
                               unresolved |-> <<>>, peer |-> None,
                               again |-> TRUE])
                ELSE Local(p, [pc |-> "note", linked |-> <<>>,
                               backlinked |-> <<>>, peer |-> None,
                               again |-> TRUE])
    /\ UNCHANGED <<notes, links, callFrame>>

\* One more call of another caller completes while the call is in flight.
Meanwhile ==
    /\ ops < MaxCalls - 1
    /\ ops' = ops + 1

AwaitNext ==
    \/ \E id \in NoteIds, content \in Bodies : CallUpdateNoteLinks(1, id, content)
    \/ GetCurrentNote(1)
    \/ FilterLinkedNotes(1)
    \/ UpdateLinkedNoteIds(1)
    \/ GetLinkedNote(1)
    \/ AddBacklink(1)
    \/ AddLink(1)
    \/ GetUnlinkedNote(1)
    \/ RemoveBacklink(1)
    \/ RemoveLink(1)
    \/ FirstExistingLink(1)
    \/ AddUnresolvedLink(1)
    \/ \E id \in NoteIds : CallDeleteNote(1, id)
    \/ GetNote(1)
    \/ GetLinkedOfNote(1)
    \/ DropBacklink(1)
    \/ GetBacklinkOfNote(1)
    \/ DropLink(1)
    \/ DeleteLinksBySource(1)
    \/ DeleteLinksByTarget(1)
    \/ DeleteTheNote(1)
    \/ StoreCallFails(1)
    \/ Retry(1)
    \/ \E id \in NoteIds, content \in Bodies :
            Meanwhile /\ UpdateNoteLinks(id, content) /\ UNCHANGED <<parserVars, calls, editorVars>>
    \/ \E id \in NoteIds :
            Meanwhile /\ DeleteNote(id) /\ UNCHANGED <<parserVars, calls, editorVars>>

AwaitSpec == StepInit /\ [][AwaitNext]_vars

(***************************************************************************)
(* createNote and updateNote with every field of their argument, and how   *)
(* each note came by its title: "default" (no title, no content),          *)
(* "derived" (generated from the content) or "manual" (given by the        *)
(* caller).                                                                *)
(***************************************************************************)
\* A first line longer than the limit of a generated title.
LongLine == [i \in 1..(TitleLimit + 1) |-> "x"]

\* Titles a caller gives: plain, and one that ends with an ellipsis.
GivenTitles == {<<"a">>, <<"a", ".", ".", ".">>}

\* Contents a caller gives.
GivenContents == {<<"a">>, <<"b", "\n", "[", "[", "a", "]", "]">>, LongLine}

\* Adjacency lists a caller puts into data.
GivenIds == {<<>>, <<1>>}

CreateNoteWith(id, title, content, linkedNoteIds, backlinkNoteIds, t) ==
    LET st == createNoteWith(Store, id, title, content,
                             linkedNoteIds, backlinkNoteIds, t)
    IN  /\ id \in NoteIds \ usedIds
        /\ \A other \in NoteIds \ usedIds : id <= other
        /\ notes' = st.notes
        /\ links' = st.links
        /\ usedIds' = usedIds \cup {id}
        /\ lastOp' = Call("createNote", id, None, st, FALSE)
        /\ titled' = [titled EXCEPT ![id] =
                         IF ~falsy(title) THEN "manual"
                         ELSE IF ~falsy(content) THEN "derived"
                         ELSE "default"]
        /\ UNCHANGED committed

\* updateNote(id, {title, content}), with what it does to the title.
UpdateNoteTitled(id, title, content, t) ==
    /\ UpdateNote(id, title, content, t)
    /\ titled' = IF id \notin DOMAIN notes THEN titled
                 ELSE IF ~falsy(title) THEN [titled EXCEPT ![id] = "manual"]
                 ELSE IF finalTitle(notes, id, title, content) # None
                      THEN [titled EXCEPT ![id] = "derived"]
                 ELSE titled

\* One more of these calls completes.
NoteOpCompleted ==
    /\ ops < MaxNoteOps
    /\ ops' = ops + 1

\* What the calls on notes leave alone.
noteFrame == <<parserVars, calls, saveTimeout, linkUpdateTimeout, timers, passed, handled,
               edits>>

NoteNext ==
    \/ \E id \in NoteIds, title \in GivenTitles \cup {None},
          content \in GivenContents \cup {None},
          linkedNoteIds \in GivenIds, backlinkNoteIds \in GivenIds :
            /\ NoteOpCompleted
            /\ CreateNoteWith(id, title, content, linkedNoteIds, backlinkNoteIds, DateNow)
            /\ UNCHANGED noteFrame
    \/ \E id \in NoteIds, title \in GivenTitles \cup {None},
          content \in GivenContents \cup {None} :
            NoteOpCompleted /\ UpdateNoteTitled(id, title, content, DateNow) /\ UNCHANGED noteFrame
    \/ \E id \in NoteIds, content \in Bodies :
            NoteOpCompleted /\ UpdateNoteLinks(id, content) /\ UNCHANGED <<noteFrame, titled>>

NoteSpec == Init /\ [][NoteNext]_vars

(***************************************************************************)
(* The editor's auto-save: debouncedSave (NoteEditor) and                  *)
(* debouncedUpdateLinks (WikiLinkPlugin).  Each keeps one module-level     *)
(* timer for all notes.  A timer that is pending fires once a second has   *)
(* passed without another call of its function; the updateNoteLinks it     *)
(* starts then runs await by await, next to those started before it.       *)
(***************************************************************************)
DebounceInit ==
    /\ notes = ThreeNotes.notes
    /\ links = ThreeNotes.links
    /\ usedIds = DOMAIN ThreeNotes.notes
    /\ committed = [id \in NoteIds |-> None]
    /\ lastOp = Call("init", NoId, None, [writes |-> <<>>], FALSE)
    /\ ops = 0
    /\ text = <<>>
    /\ parsed = None
    /\ tested = <<>>
    /\ calls = [p \in Procs |-> Idle]
    /\ EditorIdle

\* One more update of the editor.
Typed ==
    /\ edits < MaxEdits
    /\ edits' = edits + 1

\* if (saveTimeout) clearTimeout(saveTimeout); saveTimeout = setTimeout(...)
\* The handle of the new timer is the number of the editor update.
DebouncedSave(noteId, content) ==
    /\ Typed
    /\ timers' = setTimeout(clearTimeout(timers, saveTimeout),
                            Timer(edits', "save", noteId, content))
    /\ saveTimeout' = edits'
    /\ passed' = [passed EXCEPT !.save[noteId] = content]
    /\ UNCHANGED <<notes, links, usedIds, committed, lastOp, ops, parserVars, calls,
                   linkUpdateTimeout, handled, titled>>

\* A pending save timer fires; its callback: await updateNote(noteId, { content }).
\* The variable keeps the handle.
SaveTimerFires ==
    \E t \in timers :
        /\ t.fn = "save"
        /\ UpdateNote(t.noteId, None, t.content, DateNow)
        /\ ops' = ops + 1
        /\ timers' = timers \ {t}
        /\ handled' = [handled EXCEPT !.save[t.noteId] = t.content]
        /\ UNCHANGED <<parserVars, calls, saveTimeout, linkUpdateTimeout, passed, titled,
                       edits>>

\* if (linkUpdateTimeout) clearTimeout(linkUpdateTimeout);
\* linkUpdateTimeout = setTimeout(...)
DebouncedUpdateLinks(noteId, content) ==
    /\ Typed
    /\ timers' = setTimeout(clearTimeout(timers, linkUpdateTimeout),
                            Timer(edits', "links", noteId, content))
    /\ linkUpdateTimeout' = edits'
    /\ passed' = [passed EXCEPT !.links[noteId] = content]
    /\ UNCHANGED <<notes, links, usedIds, committed, lastOp, ops, parserVars, calls,
                   saveTimeout, handled, titled>>

\* A pending link timer fires; its callback: await updateNoteLinks(noteId,
\* content).  The call is entered whatever the calls entered before it are
\* doing.
LinkTimerFires ==
    \E t \in timers :
        /\ t.fn = "links"
        /\ \E p \in Procs :
              /\ calls[p].pc \in {"idle", "done"}
              /\ \A q \in Procs : q < p => calls[q].pc \notin {"idle", "done"}
              /\ calls' = [calls EXCEPT ![p] = entered(t.noteId, t.content)]
        /\ timers' = timers \ {t}
        /\ handled' = [handled EXCEPT !.links[t.noteId] = t.content]
        /\ UNCHANGED <<notes, links, usedIds, committed, lastOp, ops, parserVars,
                       saveTimeout, linkUpdateTimeout, passed, titled, edits>>

\* A store call of an updateNoteLinks in flight returns.
LinkUpdateRuns ==
    \E p \in Procs :
        \/ GetCurrentNote(p)
        \/ FilterLinkedNotes(p)
        \/ UpdateLinkedNoteIds(p)
        \/ GetLinkedNote(p)
        \/ AddBacklink(p)
        \/ AddLink(p)
        \/ GetUnlinkedNote(p)
        \/ RemoveBacklink(p)
        \/ RemoveLink(p)
        \/ FirstExistingLink(p)
        \/ AddUnresolvedLink(p)

DebounceNext ==
    \/ \E noteId \in NoteIds, content \in Bodies : DebouncedSave(noteId, content)
    \/ SaveTimerFires
    \/ \E noteId \in NoteIds, content \in Bodies : DebouncedUpdateLinks(noteId, content)
    \/ LinkTimerFires
    \/ LinkUpdateRuns

DebounceSpec == DebounceInit /\ [][DebounceNext]_vars

\* Timers fire and store calls return.
DebounceLive ==
    /\ DebounceSpec
    /\ WF_vars(SaveTimerFires)
    /\ WF_vars(LinkTimerFires)
    /\ WF_vars(LinkUpdateRuns)

(***************************************************************************)
(* The two timers on their own: the callback of a link timer taken as one  *)
(* step, its updateNoteLinks returning before anything else happens.       *)
(***************************************************************************)
LinkTimerCompletes ==
    \E t \in timers :
        /\ t.fn = "links"
        /\ UpdateNoteLinks(t.noteId, t.content)
        /\ ops' = ops + 1
        /\ timers' = timers \ {t}
        /\ handled' = [handled EXCEPT !.links[t.noteId] = t.content]
        /\ UNCHANGED <<parserVars, calls, saveTimeout, linkUpdateTimeout, passed, titled,
                       edits>>

TimerNext ==
    \/ \E noteId \in NoteIds, content \in Bodies : DebouncedSave(noteId, content)
    \/ SaveTimerFires
    \/ \E noteId \in NoteIds, content \in Bodies : DebouncedUpdateLinks(noteId, content)
    \/ LinkTimerCompletes

TimerSpec == DebounceInit /\ [][TimerNext]_vars

(***************************************************************************)
(* Properties                                                              *)
(***************************************************************************)
Rows == DOMAIN links

linked(a) == Range(notes[a].linkedNoteIds)

backlinked(b) == Range(notes[b].backlinkNoteIds)

ResolvedRow(a, b) ==
    \E r \in Rows : r.sourceNoteId = a /\ r.targetNoteId = b /\ r.resolved

TitledNotes(title) == {n \in DOMAIN notes : notes[n].title = title}

\* The last completed call is updateNoteLinks(a, ...) of an existing note a.
Committed(a) ==
    /\ lastOp.op = "updateNoteLinks"
    /\ lastOp.id = a
    /\ a \in DOMAIN notes

C3_NoDuplicateEdges ==
    /\ \A r \in Rows : links[r] = 1
    /\ \A r1 \in Rows, r2 \in Rows :
          (r1.sourceNoteId = r2.sourceNoteId /\ r1.targetTitle = r2.targetTitle)
              => r1 = r2

C5_AddEdge ==
    \A a \in DOMAIN notes :
        Committed(a) =>
            \A title \in Range(parseWikiLinks(lastOp.content)) :
                \A b \in TitledNotes(title) :
                    /\ b \in linked(a)
                    /\ a \in backlinked(b)
                    /\ Link(a, b, notes[b].title, TRUE) \in Rows

\* C6. Lazy resolution on create: once createNote has stored a note titled X,
\* every Link row of an existing source for the title X is resolved, its
\* targetNoteId names a note titled X, and the edge is in both adjacency arrays.
C6_LazyResolutionOnCreate ==
    lastOp.op = "createNote" =>
        \A r \in Rows :
            (r.targetTitle = notes[lastOp.id].title /\ r.sourceNoteId \in DOMAIN notes)
                => /\ r.resolved
                   /\ r.targetNoteId \in TitledNotes(r.targetTitle)
                   /\ r.targetNoteId \in linked(r.sourceNoteId)
                   /\ r.sourceNoteId \in backlinked(r.targetNoteId)

\* C7. I3 unresolved closure: after updateNoteLinks(A, content) completes, a
\* Link row with sourceNoteId = A.id is unresolved if and only if no existing
\* note has a title equal to its targetTitle.
C7_UnresolvedClosure ==
    \A a \in DOMAIN notes :
        Committed(a) =>
            \A r \in Rows :
                r.sourceNoteId = a =>
                    (~r.resolved <=> TitledNotes(r.targetTitle) = {})

\* The tie-break of the ambiguity policy: the greatest updatedAt, then the
\* least id.
Preferred(candidates) ==
    CHOOSE n \in candidates :
        \A m \in candidates :
            \/ notes[n].updatedAt > notes[m].updatedAt
            \/ (notes[n].updatedAt = notes[m].updatedAt /\ n <= m)

\* C8. Ambiguity policy: after updateNoteLinks(A, content) completes, for a
\* parsed title T that two or more notes bear, exactly one of them is in
\* A.linkedNoteIds and exactly one resolved Link row of A targets one of them:
\* the one with the greatest updatedAt.
C8_AmbiguityPolicy ==
    \A a \in DOMAIN notes :
        Committed(a) =>
            \A title \in Range(parseWikiLinks(lastOp.content)) :
                LET candidates == TitledNotes(title)
                IN  Cardinality(candidates) >= 2 =>
                        /\ linked(a) \cap candidates = {Preferred(candidates)}
                        /\ {r.targetNoteId : r \in {x \in Rows :
                               x.sourceNoteId = a /\ x.resolved
                                   /\ x.targetNoteId \in candidates}}
                             = {Preferred(candidates)}

\* C9 as stated. Idempotence: a second updateNoteLinks(A, content) with the
\* same content and no call in between performs no store write at all.
C9_NoWriteOnRepeat ==
    (lastOp.op = "updateNoteLinks" /\ lastOp.flag) => lastOp.writes = <<>>

\* C9 as amended. A second updateNoteLinks(A, content) of an existing note A,
\* with the same content and no call in between, issues one write call only:
\* notes.update of A.linkedNoteIds, with the ids A already holds; it adds and
\* deletes no Link row, updates no other note and leaves both tables as they
\* were.
C9_OneWriteOnRepeat ==
    [][\A a \in DOMAIN notes :
          ( /\ lastOp.op = "updateNoteLinks"
            /\ lastOp.id = a
            /\ lastOp'.op = "updateNoteLinks"
            /\ lastOp'.id = a
            /\ lastOp'.content = lastOp.content
            /\ ops' = ops + 1 )
          => ( /\ lastOp'.flag
               /\ lastOp'.writes = <<Write("notes.update", a)>>
               /\ notes' = notes
               /\ links' = links )]_vars

\* A repeated commit of a body with a resolved and an unresolved reference.
C9_Witness ==
    \E a \in DOMAIN notes :
        /\ Committed(a)
        /\ lastOp.flag
        /\ linked(a) # {}
        /\ \E r \in Rows : r.sourceNoteId = a /\ ~r.resolved

\* C10. Rename does not unresolve: a resolved edge A -> B is still there (in
\* A.linkedNoteIds, in B.backlinkNoteIds and as a resolved Link row) after
\* updateNoteLinks(A, body) with the body A last committed; only a change of
\* B's title since that commit can make the step drop the edge.
C10_RecommitKeepsEdge ==
    [][\A a \in DOMAIN notes, b \in DOMAIN notes :
          ( /\ lastOp'.op = "updateNoteLinks"
            /\ lastOp'.id = a
            /\ lastOp'.content = committed[a]
            /\ ops' = ops + 1
            /\ b \in linked(a)
            /\ a \in backlinked(b)
            /\ ResolvedRow(a, b) )
          => ( /\ b \in Range(notes'[a].linkedNoteIds)
               /\ a \in Range(notes'[b].backlinkNoteIds)
               /\ \E r \in DOMAIN links' :
                     r.sourceNoteId = a /\ r.targetNoteId = b /\ r.resolved )]_vars

\* C11. Remove edge on source edit: when A has a resolved edge to B, titled T,
\* and updateNoteLinks(A, body) completes for a body with no reference to T,
\* then B.id is not in A.linkedNoteIds, A.id is not in B.backlinkNoteIds and no
\* Link row with sourceNoteId = A.id and targetTitle = T is left, resolved or
\* unresolved.
C11_RemoveEdge ==
    [][\A a \in DOMAIN notes, b \in DOMAIN notes :
          ( /\ lastOp'.op = "updateNoteLinks"
            /\ lastOp'.id = a
            /\ ops' = ops + 1
            /\ b \in linked(a)
            /\ a \in backlinked(b)
            /\ Link(a, b, notes[b].title, TRUE) \in Rows
            /\ notes[b].title \notin Range(parseWikiLinks(lastOp'.content)) )
          => ( /\ b \notin Range(notes'[a].linkedNoteIds)
               /\ a \notin Range(notes'[b].backlinkNoteIds)
               /\ \A r \in DOMAIN links' :
                     ~(r.sourceNoteId = a /\ r.targetTitle = notes[b].title) )]_vars

\* C12. Remove placeholder on source edit: when A has an unresolved Link row
\* for the title T and updateNoteLinks(A, body) completes for a body with no
\* reference to T, no unresolved Link row with sourceNoteId = A.id and
\* targetTitle = T exists.
C12_RemovePlaceholder ==
    [][\A a \in DOMAIN notes, r \in Rows :
          ( /\ lastOp'.op = "updateNoteLinks"
            /\ lastOp'.id = a
            /\ ops' = ops + 1
            /\ r.sourceNoteId = a
            /\ ~r.resolved
            /\ r.targetTitle \notin Range(parseWikiLinks(lastOp'.content)) )
          => ~\E x \in DOMAIN links' :
                 x.sourceNoteId = a /\ x.targetTitle = r.targetTitle /\ ~x.resolved]_vars

\* C13. Rename cascade: when updateNote changes the title of note N to
\* newTitle and N is the candidate the tie-break selects for newTitle, every
\* unresolved Link row with targetTitle = newTitle is a resolved edge when the
\* call completes: the row is resolved with targetNoteId = N.id, N.id is in the
\* source's linkedNoteIds and the source's id is in N.backlinkNoteIds.
C13_RenameCascade ==
    [][\A n \in DOMAIN notes, r \in Rows :
          ( /\ lastOp'.op = "updateNote"
            /\ lastOp'.id = n
            /\ lastOp'.flag
            /\ ops' = ops + 1
            /\ ~r.resolved
            /\ r.sourceNoteId \in DOMAIN notes
            /\ r.targetTitle = notes'[n].title
            /\ \A m \in DOMAIN notes' :
                  notes'[m].title = notes'[n].title =>
                      \/ notes'[n].updatedAt > notes'[m].updatedAt
                      \/ (notes'[n].updatedAt = notes'[m].updatedAt /\ n <= m) )
          => ( /\ r \notin DOMAIN links'
               /\ Link(r.sourceNoteId, n, r.targetTitle, TRUE) \in DOMAIN links'
               /\ n \in Range(notes'[r.sourceNoteId].linkedNoteIds)
               /\ r.sourceNoteId \in Range(notes'[n].backlinkNoteIds) )]_vars

\* C14. Unresolved reference: when updateNoteLinks(A, body) completes for a
\* body referencing a title T that no note bears, A.linkedNoteIds holds the
\* notes bearing the other referenced titles and no id for T, every note's
\* backlinkNoteIds is as before but for A.id, which only the notes in
\* A.linkedNoteIds hold, and exactly one Link row {sourceNoteId: A.id,
\* targetTitle: T, resolved: false} exists, at the first commit of the body
\* and at every later one.
C14_UnresolvedReference ==
    [][\A a \in DOMAIN notes :
          ( /\ lastOp'.op = "updateNoteLinks"
            /\ lastOp'.id = a
            /\ ops' = ops + 1 )
          => \A title \in Range(parseWikiLinks(lastOp'.content)) :
                 TitledNotes(title) = {} =>
                     /\ \A b \in Range(notes'[a].linkedNoteIds) :
                           /\ notes'[b].title # title
                           /\ notes'[b].title \in Range(parseWikiLinks(lastOp'.content))
                     /\ \A b \in DOMAIN notes :
                           /\ Range(notes'[b].backlinkNoteIds) \ {a} = backlinked(b) \ {a}
                           /\ a \in Range(notes'[b].backlinkNoteIds)
                                 <=> b \in Range(notes'[a].linkedNoteIds)
                     /\ Link(a, NoId, title, FALSE) \in DOMAIN links'
                     /\ links'[Link(a, NoId, title, FALSE)] = 1
                     /\ \A r \in DOMAIN links' :
                           (r.sourceNoteId = a /\ r.targetTitle = title /\ ~r.resolved)
                               => r = Link(a, NoId, title, FALSE)]_vars

\* The same body, with a reference no note bears the title of, has been
\* committed twice in a row while another note exists.
C14_Witness ==
    \E a \in DOMAIN notes :
        /\ Committed(a)
        /\ lastOp.flag
        /\ DOMAIN notes # {a}
        /\ \E title \in Range(parseWikiLinks(lastOp.content)) :
              /\ TitledNotes(title) = {}
              /\ Link(a, NoId, title, FALSE) \in Rows

\* C15. Delete leaves no residue and touches nothing else: deleteNote(N)
\* creates no Link row, leaves every Link row whose sourceNoteId and
\* targetNoteId both differ from N.id as it was, and changes no field of any
\* other note except for removing N.id from its linkedNoteIds and
\* backlinkNoteIds.
C15_DeleteFrame ==
    [][\A n \in NoteIds :
          ( /\ lastOp'.op = "deleteNote"
            /\ lastOp'.id = n
            /\ ops' = ops + 1 )
          => ( /\ \A r \in DOMAIN links' : r \in Rows /\ links'[r] <= links[r]
               /\ \A r \in Rows :
                     (r.sourceNoteId # n /\ r.targetNoteId # n)
                         => r \in DOMAIN links' /\ links'[r] = links[r]
               /\ DOMAIN notes' = DOMAIN notes \ {n}
               /\ \A m \in DOMAIN notes' :
                     /\ notes'[m].title = notes[m].title
                     /\ notes'[m].updatedAt = notes[m].updatedAt
                     /\ notes'[m].linkedNoteIds =
                            SelectSeq(notes[m].linkedNoteIds, LAMBDA x : x # n)
                     /\ notes'[m].backlinkNoteIds =
                            SelectSeq(notes[m].backlinkNoteIds, LAMBDA x : x # n) )]_vars

\* A note with a neighbour has been deleted; the neighbour and an unresolved
\* Link row of its own are left.
C15_Witness ==
    /\ lastOp.op = "deleteNote"
    /\ Len(lastOp.writes) >= 4
    /\ \E r \in Rows : ~r.resolved /\ r.sourceNoteId \in DOMAIN notes

\* C16. Backlinks query: after every completed call, getBacklinks(N) returns
\* exactly the existing notes whose last link-committed body has a reference
\* with N's current title, and the empty list when N does not exist.
C16_BacklinksQuery ==
    \A n \in NoteIds :
        Range(getBacklinks(notes, n)) =
            IF n \in DOMAIN notes
            THEN {a \in DOMAIN notes :
                     /\ committed[a] # None
                     /\ notes[n].title \in Range(parseWikiLinks(committed[a]))}
            ELSE {}

\* A well-formed marker starts at position p of s: "[[", one or more
\* characters other than "]", then "]]", and p lies in no marker that starts
\* further left (no "[[" before p is still open at p).
MarkerAt(s, p) ==
    /\ p + 1 <= Len(s)
    /\ s[p] = "["
    /\ s[p + 1] = "["
    /\ \E q \in p + 3..Len(s) - 1 :
          /\ s[q] = "]"
          /\ s[q + 1] = "]"
          /\ \A k \in p + 2..q - 1 : s[k] # "]"
    /\ ~\E o \in 1..p - 1 :
          /\ s[o] = "["
          /\ s[o + 1] = "["
          /\ \A k \in o + 2..p - 1 : s[k] # "]"

\* The title of the marker at p: the text between its brackets, without the
\* white space around it.
TitleAt(s, p) ==
    LET q == CHOOSE q \in p + 3..Len(s) - 1 :
                 s[q] = "]" /\ \A k \in p + 2..q - 1 : s[k] # "]"
        inner == SubSeq(s, p + 2, q - 1)
        solid == {k \in 1..Len(inner) : inner[k] \notin WhiteSpace}
    IN  IF solid = {}
        THEN <<>>
        ELSE [k \in 1..(SetMax(solid) - SetMin(solid) + 1) |-> inner[SetMin(solid) + k - 1]]

\* The position of the first marker of s with the title t.
FirstMarker(s, t) ==
    SetMin({p \in 1..Len(s) : MarkerAt(s, p) /\ TitleAt(s, p) = t})

\* C17. Parser contract: parseWikiLinks(text) returns the titles of all
\* well-formed [[...]] markers of the text, each without the white space
\* around it and with its case kept, no title twice (two markers with the
\* same trimmed title give one entry), in the order of their first
\* occurrence; this fixes the output, so the same text always gives the same
\* output.
C17_ParserContract ==
    parsed # None =>
        /\ Range(parsed) = {TitleAt(text, p) : p \in {x \in 1..Len(text) : MarkerAt(text, x)}}
        /\ \A i \in 1..Len(parsed), j \in 1..Len(parsed) :
              i < j => /\ parsed[i] # parsed[j]
                       /\ FirstMarker(text, parsed[i]) < FirstMarker(text, parsed[j])
        /\ \A i \in 1..Len(parsed) :
              parsed[i] # <<>> =>
                  /\ parsed[i][1] \notin WhiteSpace
                  /\ parsed[i][Len(parsed[i])] \notin WhiteSpace
        /\ parsed = parseWikiLinks(text)

\* A text with three markers, two of them with the same title once the blanks
\* are trimmed and one that differs in case only, has been parsed.
C17_Witness ==
    /\ parsed = << <<"a">>, <<"A">> >>
    /\ Cardinality({p \in 1..Len(text) : MarkerAt(text, p)}) = 3
    /\ " " \in Range(text)

\* C18. Malformed markers: parseWikiLinks takes an unterminated or malformed
\* marker for a non-match, so no returned title holds the text "[[" of a
\* partial marker, and the text "[[a [[A]]", an unterminated "[[" with a
\* well-formed marker after it, gives the title "A" only.
C18_MalformedNotMatched ==
    parsed # None =>
        /\ \A i \in 1..Len(parsed) :
              ~\E k \in 1..Len(parsed[i]) - 1 :
                  parsed[i][k] = "[" /\ parsed[i][k + 1] = "["
        /\ text = <<"[", "[", "a", " ", "[", "[", "A", "]", "]">>
              => parsed = << <<"A">> >>

\* Call p is an updateNoteLinks of an existing source that has run to its end.
CommitDone(p) ==
    /\ calls[p].op = "updateNoteLinks"
    /\ calls[p].pc = "done"
    /\ calls[p].id \in DOMAIN notes

\* C19. Diff-then-apply is non-interleavable: when two updateNoteLinks calls
\* for different sources A and C, both adding or both removing a reference to
\* the same target B, interleave at their store calls, then after both have
\* completed B.backlinkNoteIds reflects both changes and mirrors
\* A.linkedNoteIds and C.linkedNoteIds (no update is lost).
C19_NoLostUpdate ==
    \A p \in Procs, q \in Procs, b \in DOMAIN notes :
        ( /\ p # q
          /\ CommitDone(p)
          /\ CommitDone(q)
          /\ calls[p].id # calls[q].id
          /\ \/ /\ b \in Range(calls[p].new) \ Range(calls[p].old)
                /\ b \in Range(calls[q].new) \ Range(calls[q].old)
             \/ /\ b \in Range(calls[p].old) \ Range(calls[p].new)
                /\ b \in Range(calls[q].old) \ Range(calls[q].new) )
        => /\ b \in linked(calls[p].id) <=> calls[p].id \in backlinked(b)
           /\ b \in linked(calls[q].id) <=> calls[q].id \in backlinked(b)

\* C20. No partial state on failure: when a store read or write inside
\* updateNoteLinks or deleteNote fails, the call ends with the error and the
\* store (the notes with their adjacency arrays, and the Link rows) is as it
\* was before the call; no other call is in flight.
C20_NoPartialState ==
    \A p \in Procs :
        ( /\ calls[p].pc = "failed"
          /\ \A q \in Procs \ {p} : calls[q].pc = "idle" )
        => /\ notes = calls[p].before.notes
           /\ links = calls[p].before.links

\* C23. Denormalized title refresh: after every completed call, updateNote
\* with a new title included, every resolved Link row has the targetTitle
\* that the note its targetNoteId names has now.
C23_TargetTitleCurrent ==
    \A r \in Rows :
        (r.resolved /\ r.targetNoteId \in DOMAIN notes)
            => r.targetTitle = notes[r.targetNoteId].title

\* The resolved Link rows from a note to itself.
SelfRows(a) ==
    {r \in Rows : r.sourceNoteId = a /\ r.targetNoteId = a /\ r.resolved}

\* C28. Self-reference: after updateNoteLinks(A, body) for a body that
\* references A's own title, A.id is in A.linkedNoteIds and in
\* A.backlinkNoteIds and there is one resolved Link row A -> A; and a
\* deleteNote(A) of a note that links to itself (it updates A's own row)
\* removes the note and every Link row of it.
C28_SelfReference ==
    /\ \A a \in DOMAIN notes :
          (Committed(a) /\ notes[a].title \in Range(parseWikiLinks(lastOp.content)))
              => /\ a \in linked(a)
                 /\ a \in backlinked(a)
                 /\ Cardinality(SelfRows(a)) = 1
                 /\ \A r \in SelfRows(a) : links[r] = 1
    /\ ( /\ lastOp.op = "deleteNote"
         /\ Write("notes.update", lastOp.id) \in Range(lastOp.writes) )
       => /\ lastOp.id \notin DOMAIN notes
          /\ \A r \in Rows :
                r.sourceNoteId # lastOp.id /\ r.targetNoteId # lastOp.id
          /\ \A a \in DOMAIN notes :
                lastOp.id \notin linked(a) /\ lastOp.id \notin backlinked(a)

\* A note that linked to itself and to another note has been deleted.
C28_Witness ==
    /\ lastOp.op = "deleteNote"
    /\ Write("notes.update", lastOp.id) \in Range(lastOp.writes)
    /\ DOMAIN notes # {}
    /\ Len(lastOp.writes) >= 6

\* The store call that call p was waiting for has returned.
Returned(p) ==
    /\ calls[p].pc \notin {"idle", "failed"}
    /\ calls'[p] # calls[p]
    /\ calls'[p].pc # "failed"

StoreSame == notes' = notes /\ links' = links

\* C21. NotFound is a benign no-op: deleteNote(id) and updateNoteLinks(id,
\* content) for an id that is not in the store return at once, without a
\* store write; and when the read of a neighbour id in one of their loops
\* finds no note, the call writes nothing for that neighbour and goes on
\* with the next one (or with what follows the loop).
C21_NotFoundNoOp ==
    [][ /\ \A p \in Procs :
              Returned(p) =>
                  LET c == calls[p]
                      d == calls'[p]
                  IN  /\ (c.pc \in {"get", "note"} /\ c.id \notin DOMAIN notes)
                            => d.pc = "done" /\ StoreSame
                      /\ (c.pc = "addGet" /\ Head(c.added) \notin DOMAIN notes)
                            => /\ StoreSame
                               /\ d.added = Tail(c.added)
                               /\ d.pc = loopOf(d.added, d.removed, d.unresolved)
                      /\ (c.pc = "removeGet" /\ Head(c.removed) \notin DOMAIN notes)
                            => /\ StoreSame
                               /\ d.removed = Tail(c.removed)
                               /\ d.pc = loopOf(<<>>, d.removed, d.unresolved)
                      /\ (c.pc = "linkedGet" /\ Head(c.linked) \notin DOMAIN notes)
                            => /\ StoreSame
                               /\ d.linked = Tail(c.linked)
                               /\ d.pc = deleteLoopOf(d.linked, d.backlinked)
                      /\ (c.pc = "backlinkGet" /\ Head(c.backlinked) \notin DOMAIN notes)
                            => /\ StoreSame
                               /\ d.backlinked = Tail(c.backlinked)
                               /\ d.pc = deleteLoopOf(<<>>, d.backlinked)
        /\ ( /\ ops' # ops
             /\ lastOp'.op \in {"deleteNote", "updateNoteLinks"}
             /\ lastOp'.id \notin DOMAIN notes )
           => lastOp'.writes = <<>> /\ StoreSame
      ]_vars

\* updateNoteLinks has returned after it skipped a target that another
\* caller's deleteNote had removed: the source lists the target, the target
\* is gone and no row was added for it.
C21_Witness ==
    /\ calls[1].op = "updateNoteLinks"
    /\ calls[1].pc = "done"
    /\ calls[1].id \in DOMAIN notes
    /\ lastOp.op = "deleteNote"
    /\ lastOp.id \in Range(calls[1].new) \ Range(calls[1].old)
    /\ lastOp.id \notin DOMAIN notes
    /\ lastOp.id \in linked(calls[1].id)
    /\ ~ResolvedRow(calls[1].id, lastOp.id)

\* The store an uninterrupted updateNoteLinks of call p produces from the
\* store the call was first made on.
Uninterrupted(p) ==
    updateNoteLinks([notes |-> calls[p].before.notes,
                     links |-> calls[p].before.links,
                     writes |-> <<>>],
                    calls[p].id, calls[p].content)

\* C24. Retry heals a partial apply: when updateNoteLinks(A, content) failed
\* at one of its store calls, was made again with the same content and has
\* returned, no other call having touched the store, the store is the one a
\* single uninterrupted run produces, and every edge has both its sides.
C24_RetryHeals ==
    \A p \in Procs :
        ( /\ calls[p].op = "updateNoteLinks"
          /\ calls[p].pc = "done"
          /\ "again" \in DOMAIN calls[p]
          /\ ops = 0 )
        => /\ notes = Uninterrupted(p).notes
           /\ links = Uninterrupted(p).links
           /\ \A a, b \in DOMAIN notes : b \in linked(a) <=> a \in backlinked(b)

\* C25. No one-sided edge is observable: while a single updateNoteLinks or
\* deleteNote is in flight and no other call has been made, in the store
\* between any two of its store calls B is in A.linkedNoteIds exactly when A
\* is in B.backlinkNoteIds.
C25_NoOneSidedEdge ==
    ( \E p \in Procs :
          /\ calls[p].pc \notin {"idle", "failed"}
          /\ \A q \in Procs \ {p} : calls[q].pc = "idle" )
    => \A a, b \in DOMAIN notes : b \in linked(a) <=> a \in backlinked(b)

\* C26. Delete is exclusive with commits: when deleteNote(B) and
\* updateNoteLinks(A, body) with B's title in the body have both returned,
\* B.id is in no note's linkedNoteIds or backlinkNoteIds and no Link row has
\* targetNoteId = B.id.
C26_DeleteExclusive ==
    \A p, q \in Procs :
        ( /\ calls[p].op = "deleteNote"
          /\ calls[p].pc = "done"
          /\ calls[q].op = "updateNoteLinks"
          /\ calls[q].pc = "done"
          /\ calls[p].id \in DOMAIN calls[q].before.notes
          /\ calls[q].before.notes[calls[p].id].title \in Range(calls[q].linkedTitles) )
        => /\ \A a \in DOMAIN notes :
                 calls[p].id \notin linked(a) /\ calls[p].id \notin backlinked(a)
           /\ \A r \in Rows : r.targetNoteId # calls[p].id

\* C22. Auto-save liveness: for every note the last text passed to
\* debouncedSave is in the end the text its timer handed to updateNote, and
\* the last text passed to debouncedUpdateLinks is in the end the text its
\* timer handed to updateNoteLinks.
C22_AutoSaveLiveness ==
    <>[](\A id \in NoteIds :
            /\ handled.save[id] = passed.save[id]
            /\ handled.links[id] = passed.links[id])

\* The invocations of updateNoteLinks that have not returned.
InFlight ==
    {p \in Procs : calls[p].op = "updateNoteLinks" /\ calls[p].pc # "done"}

\* C27. Commits for one note never overlap: no two invocations of
\* updateNoteLinks for the same note are in flight at a time.
C27_NoOverlap ==
    \A p, q \in InFlight : p # q => calls[p].id # calls[q].id

\* C29. Auto-title rule: updateNote(id, {content}) without a title makes the
\* title the one generated from the new content when the note's title is the
\* default or was generated from content, and leaves a title the caller gave
\* as it is.
C29_AutoTitle ==
    [][ \A id \in DOMAIN notes, content \in GivenContents :
            (ops' = ops + 1 /\ UpdateNoteTitled(id, None, content, DateNow))
                => /\ titled[id] \in {"default", "derived"}
                         => notes'[id].title = generateTitleFromContent(content)
                   /\ titled[id] = "manual"
                         => notes'[id].title = notes[id].title
      ]_vars

\* C30. Creation lifecycle: the note a createNote stores has empty
\* linkedNoteIds and backlinkNoteIds whatever its data was, and the call
\* changes no other note and no Link row.
C30_CreationLifecycle ==
    [][ (ops' = ops + 1 /\ lastOp'.op = "createNote")
            => /\ notes'[lastOp'.id].linkedNoteIds = <<>>
               /\ notes'[lastOp'.id].backlinkNoteIds = <<>>
               /\ \A n \in DOMAIN notes : notes'[n] = notes[n]
               /\ links' = links
      ]_vars

\* C31. State idempotence: a second updateNoteLinks(A, content) right after
\* the first, with the same content, leaves the store as the first call left
\* it: the same notes, the same ids in every note's linkedNoteIds and
\* backlinkNoteIds, and the same Link rows.
C31_StateIdempotence ==
    [][\A a \in NoteIds :
          ( /\ lastOp.op = "updateNoteLinks"
            /\ lastOp.id = a
            /\ lastOp'.op = "updateNoteLinks"
            /\ lastOp'.id = a
            /\ lastOp'.content = lastOp.content
            /\ ops' = ops + 1 )
          => ( /\ DOMAIN notes' = DOMAIN notes
               /\ \A n \in DOMAIN notes :
                     /\ Range(notes'[n].linkedNoteIds) = Range(notes[n].linkedNoteIds)
                     /\ Range(notes'[n].backlinkNoteIds) = Range(notes[n].backlinkNoteIds)
               /\ links' = links )]_vars

\* A commit was repeated for a note with a resolved edge to another note.
C31_Witness ==
    \E a, b \in DOMAIN notes :
        /\ Committed(a)
        /\ lastOp.flag
        /\ a # b
        /\ b \in linked(a)
        /\ a \in backlinked(b)
        /\ ResolvedRow(a, b)

\* The ids that are in one of the two lists only.
Changed(before, after) ==
    (Range(before) \ Range(after)) \cup (Range(after) \ Range(before))

\* C32. Frame of a content commit: updateNoteLinks(A, content) adds and
\* removes no note and changes no note's title or updatedAt; it changes the
\* linkedNoteIds of A only, the backlinkNoteIds only of notes whose id enters
\* or leaves A.linkedNoteIds, and only Link rows with sourceNoteId = A.id.
C32_CommitFrame ==
    [][ (lastOp'.op = "updateNoteLinks" /\ ops' = ops + 1)
            => LET a == lastOp'.id
               IN  /\ DOMAIN notes' = DOMAIN notes
                   /\ \A n \in DOMAIN notes :
                         /\ notes'[n].title = notes[n].title
                         /\ notes'[n].updatedAt = notes[n].updatedAt
                         /\ n # a => notes'[n].linkedNoteIds = notes[n].linkedNoteIds
                         /\ notes'[n].backlinkNoteIds # notes[n].backlinkNoteIds
                               => /\ a \in DOMAIN notes
                                  /\ n \in Changed(notes[a].linkedNoteIds,
                                                   notes'[a].linkedNoteIds)
                   /\ \A r \in DOMAIN links \cup DOMAIN links' :
                         r.sourceNoteId # a => CopiesIn(r, links') = CopiesIn(r, links)
      ]_vars

\* A commit has added or removed edges of a note while another note has
\* edges and Link rows of its own.
C32_Witness ==
    \E a \in DOMAIN notes, n \in DOMAIN notes :
        /\ Committed(a)
        /\ n # a
        /\ Len(lastOp.writes) >= 3
        /\ linked(n) # {}
        /\ \E r \in Rows : r.sourceNoteId = n

\* C33. Link well-formedness: after every completed call, a Link row is
\* resolved exactly when its targetNoteId is not the empty string, its
\* sourceNoteId names an existing note, and the targetNoteId of a resolved
\* row names an existing note.
C33_LinkWellFormed ==
    \A r \in Rows :
        /\ r.resolved <=> r.targetNoteId # NoId
        /\ r.sourceNoteId \in DOMAIN notes
        /\ r.resolved => r.targetNoteId \in DOMAIN notes

\* A note with Link rows to and from it has been deleted, and resolved and
\* unresolved rows of other notes are left.
C33_Witness ==
    /\ lastOp.op = "deleteNote"
    /\ Len(lastOp.writes) >= 5
    /\ \E r \in Rows : r.resolved
    /\ \E r \in Rows : ~r.resolved

\* No element occurs twice in the list.
NoRepeat(ids) == Cardinality(Range(ids)) = Len(ids)

Pending(fn) == {t \in timers : t.fn = fn}

Latest(fn) == IF fn = "save" THEN saveTimeout ELSE linkUpdateTimeout

\* The pending timer that the last call of the function set, if there is one.
LastCall(fn) == {t \in Pending(fn) : t.handle = Latest(fn)}

\* The operation the timer of a function calls.
CalledBy(fn) == IF fn = "save" THEN "updateNote" ELSE "updateNoteLinks"

\* C35. Debounce coalescing: at any time at most one save timer and at most
\* one link-update timer is pending, and every call of updateNote or
\* updateNoteLinks that a timer makes is made by the timer of the last call of
\* debouncedSave or debouncedUpdateLinks, with that call's noteId and content:
\* the timer of a call that another call followed before it fired never fires.
C35_Coalescing ==
    /\ [](\A fn \in {"save", "links"} : Cardinality(Pending(fn)) <= 1)
    /\ [][ /\ ops' = ops + 1
                => \E fn \in {"save", "links"} : \E t \in LastCall(fn) :
                      /\ timers' = timers \ {t}
                      /\ lastOp'.op = CalledBy(fn)
                      /\ lastOp'.id = t.noteId
                      /\ fn = "links" => lastOp'.content = t.content
                      /\ handled'[fn][t.noteId] = t.content
                      /\ passed[fn][t.noteId] = t.content
           /\ \A p \in Procs :
                (calls'[p] # calls[p] /\ calls'[p].pc = "get")
                    => \E t \in LastCall("links") :
                          /\ timers' = timers \ {t}
                          /\ calls'[p].id = t.noteId
                          /\ calls'[p].content = t.content
                          /\ handled'.links[t.noteId] = t.content
                          /\ passed.links[t.noteId] = t.content
         ]_vars

\* Two calls of debouncedSave, the second for another note before the timer of
\* the first fired; the timer of the second has fired and saved its note, and
\* nothing was saved for the first.
C35_Witness ==
    /\ lastOp.op = "updateNote"
    /\ timers = {}
    /\ saveTimeout = 2
    /\ \E a, b \in DOMAIN notes :
          /\ a # b
          /\ lastOp.id = b
          /\ passed.save[a] # None
          /\ handled.save[a] = None
          /\ handled.save[b] = passed.save[b]

\* C36. Parser agreement: for every text, hasWikiLinks(text) is true exactly
\* when parseWikiLinks(text) returns a list that is not empty.
C36_ParserAgreement ==
    (parsed # None /\ tested # <<>>) => (tested[1] <=> parsed # <<>>)

\* Both were called on a text whose only marker holds blanks and does not
\* stand at the start: the one title is the empty string.
C36_Witness ==
    /\ tested = <<TRUE>>
    /\ parsed # None
    /\ parsed = << <<>> >>
    /\ ~matchAt(text, 1)

====
